---- MODULE Spec2Model ----
(***************************************************************************)
(* Ticket inventory, purchases, the cache-aside ticket listing and the     *)
(* payment verification of the event-management server.                    *)
(*                                                                         *)
(* Every request handler is an async function: the code between two awaits *)
(* runs without interruption, and each awaited call on the database or on  *)
(* redis is one atomic operation of that store.  An action of this module  *)
(* is one such store operation together with the synchronous code that     *)
(* follows it up to the next await (or up to the response).                *)
(***************************************************************************)
EXTENDS Integers, Sequences, FiniteSets, TLC

(***************************************************************************)
(* Bounds of the model.                                                    *)
(***************************************************************************)
MaxTickets == 2
MaxAttempts == 2
MaxAvail == 5
MaxQty == 3
MaxListers == 2
MaxAdminOps == 1
MaxRequests == 3
MaxVerifications == 2
MaxLookups == 2
MaxSearches == 2

TicketIds == 1..MaxTickets
Procs == 1..MaxAttempts
Listers == 1..MaxListers
Admins == {"a1", "a2"}
Events == {"e1", "e2"}
TicketTypes == {"vip", "regular"}
\* Joi.number() accepts any number: negative and zero quantities pass validation
Quantities == {-1} \cup (0..MaxQty)
Prices == {100, 150}
\* Joi.number() accepts any number for ticketsAvailable as well
StockInputs == {-1, 0, MaxAvail}

VARIABLES
    tickets,      \* the tickets collection: ticket id -> document
    purchases,    \* the purchasedTickets collection: a set of documents
    req,          \* the purchaseTicketController invocations
    cache,        \* redis: event id -> value stored under tickets:{eventId}
    lst,          \* the ticketListByEventController invocations
    adminOps,     \* number of organizer requests served so far
    adminResp,    \* HTTP status of the last organizer request
    initialAvailable, \* history: ticketsAvailable of ticket 1 at the start
    expiry,       \* redis: event id -> seconds to live given to the entry
    payments,     \* the payments collection: a set of documents
    pay,          \* the paymentVerification invocations
    look,         \* the purchased-ticket lookup invocations
    userCache,    \* redis: user id -> value stored under users:{userId}
    search,       \* the filtered eventsListController invocations
    filterCache   \* redis: the value stored under events:filter

vars == <<tickets, purchases, req, cache, lst, adminOps, adminResp,
          initialAvailable, expiry, payments, pay, look, userCache, search,
          filterCache>>
purchaseVars == <<tickets, purchases, req>>
listVars == <<cache, lst, expiry>>
adminVars == <<adminOps, adminResp, initialAvailable>>
payVars == <<payments, pay>>
lookVars == <<look, userCache>>
searchVars == <<search, filterCache>>

(***************************************************************************)
(* Ticket documents.  st is "none" for an id never used, "live" for a      *)
(* stored document and "deleted" for a removed one (ids are never reused). *)
(***************************************************************************)
NoTicket ==
    [st |-> "none", admin |-> "", event |-> "", ticketType |-> "",
     price |-> 0, ticketsAvailable |-> 0]

\* Ticket.findById: the document, or null (NoTicket) when there is none
findById(t) == IF tickets[t].st = "live" THEN tickets[t] ELSE NoTicket

\* req.user.id of a purchase request
UserOf(p) == IF p % 2 = 1 THEN "u1" ELSE "u2"

IdleReq ==
    [pc |-> "idle", ticketId |-> 0, ticketType |-> "", ticketsQuantity |-> 0,
     existingTicket |-> NoTicket, outcome |-> "none", status |-> 0,
     wrote |-> FALSE, removed |-> 0, cached |-> FALSE]

\* the HTTP status the error handler or the controller answers with
StatusOf(outcome) ==
    CASE outcome = "success" -> 201
      [] outcome \in {"validation", "invalidId", "notFound", "typeMismatch",
                      "insufficient"} -> 400
      [] outcome \in {"createFailed", "saveFailed", "docNotFound"} -> 500
      [] OTHER -> 0

\* the handler returns: its local existingTicket is gone
Finish(p, outcome) ==
    [req[p] EXCEPT !.pc = "done", !.outcome = outcome,
                   !.status = StatusOf(outcome), !.existingTicket = NoTicket]

\* updateTicketsAvailable without the else branch: the difference is stored
\* whatever its sign
updateTicketsAvailable_NoClamp(ticket, quantity) ==
    [ticket EXCEPT !.ticketsAvailable = ticket.ticketsAvailable - quantity]

(***************************************************************************)
(* updateTicketsAvailable: the remaining quantity, clamped at zero.        *)
(***************************************************************************)
updateTicketsAvailable(ticket, quantity) ==
    LET remainingTickets == ticket.ticketsAvailable - quantity
    IN  IF remainingTickets >= 0
        THEN [ticket EXCEPT !.ticketsAvailable = remainingTickets]
        ELSE [ticket EXCEPT !.ticketsAvailable = 0]

(***************************************************************************)
(* The redis entry of a listing.  JSON.stringify turns the array of ticket *)
(* objects into text, modelled as a sequence of tuples; JSON.parse turns   *)
(* the text back into objects.  Miss is redis' null for an absent key.     *)
(***************************************************************************)
Miss == <<>>

\* the "EX" argument of the listing's client.set: 60 * 60 seconds
TicketListTTL == 60 * 60

stringify(objs) ==
    [i \in 1..Len(objs) |->
        <<objs[i].id, objs[i].createdBy, objs[i].type, objs[i].price,
          objs[i].ticketsAvailable>>]

parse(text) ==
    [i \in 1..Len(text) |->
        [id |-> text[i][1], createdBy |-> text[i][2], type |-> text[i][3],
         price |-> text[i][4], ticketsAvailable |-> text[i][5]]]

\* Ticket.find({ event: eventId }) mapped to the listing objects, in id order
RECURSIVE ListingFrom(_, _, _)
ListingFrom(store, eventId, t) ==
    IF t > MaxTickets THEN <<>>
    ELSE IF store[t].st = "live" /\ store[t].event = eventId
         THEN <<[id |-> t, createdBy |-> store[t].admin,
                 type |-> store[t].ticketType, price |-> store[t].price,
                 ticketsAvailable |-> store[t].ticketsAvailable]>>
              \o ListingFrom(store, eventId, t + 1)
         ELSE ListingFrom(store, eventId, t + 1)

Lookers == 1..MaxLookups
Searchers == 1..MaxSearches

\* the requests the server has begun to serve
Started ==
    Cardinality({p \in Procs : req[p].pc # "idle"})
      + Cardinality({l \in Listers : lst[l].pc # "idle"}) + adminOps
      + Cardinality({k \in Lookers : look[k].pc # "idle"})

IdleList ==
    [pc |-> "idle", eventId |-> "", tickets |-> <<>>, status |-> 0,
     resp |-> <<>>, after |-> {}, auth |-> <<>>]

(***************************************************************************)
(* Payment verification data.  A request carries razorpay_order_id,        *)
(* razorpay_payment_id and razorpay_signature.  createHmac(key).update(    *)
(* body).digest('hex') is modelled as an ideal keyed digest: two digests   *)
(* are equal exactly when key and body are equal.  A body is the           *)
(* concatenation of its three parts, kept as a tuple.                      *)
(***************************************************************************)
Verifiers == 1..MaxVerifications
OrderIds == {"o1", "o2"}
PaymentIds == {"p1", "p2"}

\* the module variable of the payment controller: declared with "let
\* orderId;" and assigned nowhere, so it reads as undefined in every request
orderId == "undefined"

key_secret == "ggMzScMI6LI4RpKdaudtuVQb"

createHmac(key, body) == <<"hmac", key, body>>

\* the signatures a client may send: the digest razorpay issues for an order
\* and a payment, the digest of the body the controller builds, and a digest
\* made without the secret
Signatures ==
    {createHmac(key_secret, <<o, "|", pid>>) :
        o \in OrderIds \cup {orderId}, pid \in PaymentIds}
      \cup {createHmac("guess", <<"o1", "|", "p1">>)}

\* the accounts with role USER
Users == {"u1", "u2"}

IdlePay ==
    [pc |-> "idle", razorpay_payment_id |-> "", razorpay_order_id |-> "",
     razorpay_signature |-> <<>>, outcome |-> "none", status |-> 0]

\* kind is "all" for getAllPurchasedTicketsController and "byId" for
\* purchasedTicketByIdController; after is history: the purchases answered
\* 201 before the lookup read the store
IdleLook ==
    [pc |-> "idle", kind |-> "", user |-> "", id |-> 0, tickets |-> {},
     outcome |-> "none", status |-> 0, after |-> {}]

(***************************************************************************)
(* The filtered event search.  The events collection is not written by any *)
(* request of this module: it holds the two events, one per category.      *)
(* A request carries the category filter and the page.                     *)
(***************************************************************************)
Categories == {"music", "sports"}
Pages == {1, 2}
limit == 10

\* the admin who owns an event (events are created elsewhere)
EventAdmin(e) == IF e = "e1" THEN "a1" ELSE "a2"

CategoryOf(e) == IF e = "e1" THEN "music" ELSE "sports"

\* Events.find(query).skip(skip).limit(limit) mapped to the response
\* objects: the matching events from position skip + 1 on, at most limit
RECURSIVE MatchingFrom(_, _)
MatchingFrom(category, es) ==
    IF es = <<>> THEN <<>>
    ELSE LET e == Head(es)
         IN  IF CategoryOf(e) = category
             THEN <<[id |-> e, createdBy |-> EventAdmin(e),
                     event |-> CategoryOf(e)]>>
                  \o MatchingFrom(category, Tail(es))
             ELSE MatchingFrom(category, Tail(es))

EventsPage(category, page) ==
    LET skip == (page - 1) * limit
        all == MatchingFrom(category, <<"e1", "e2">>)
    IN  [i \in 1..(IF Len(all) - skip > limit THEN limit
                    ELSE IF Len(all) - skip < 0 THEN 0
                    ELSE Len(all) - skip) |-> all[skip + i]]

\* JSON.stringify of the events array: a text, never equal to redis' null
stringifyEvents(events) ==
    <<[i \in 1..Len(events) |->
         <<events[i].id, events[i].createdBy, events[i].event>>]>>

\* resp is the JSON text of the events the response carries
IdleSearch ==
    [pc |-> "idle", category |-> "", page |-> 0, events |-> <<>>,
     status |-> 0, resp |-> <<>>]

Init ==
    /\ initialAvailable \in 0..MaxAvail
    /\ tickets = [t \in TicketIds |->
                    IF t = 1
                    THEN [st |-> "live", admin |-> "a1", event |-> "e1",
                          ticketType |-> "vip", price |-> 100,
                          ticketsAvailable |-> initialAvailable]
                    ELSE NoTicket]
    /\ purchases = {}
    /\ req = [p \in Procs |-> IdleReq]
    /\ cache = [e \in Events |-> Miss]
    /\ lst = [l \in Listers |-> IdleList]
    /\ adminOps = 0
    /\ adminResp = 0
    /\ expiry = [e \in Events |-> 0]
    /\ payments = {}
    /\ pay = [v \in Verifiers |-> IdlePay]
    /\ look = [k \in Lookers |-> IdleLook]
    /\ userCache = [u \in Users |-> Miss]
    /\ search = [x \in Searchers |-> IdleSearch]
    /\ filterCache = Miss

(***************************************************************************)
(* purchaseTicketController                                                *)
(***************************************************************************)
\* the request body fails purchaseTicketSchema
PurchaseValidationError(p) ==
    /\ req[p].pc = "idle"
    /\ Started < MaxRequests
    /\ req' = [req EXCEPT ![p] = Finish(p, "validation")]
    /\ UNCHANGED <<tickets, purchases, listVars, adminVars, payVars, lookVars, searchVars>>

\* the path id is no ObjectId
PurchaseInvalidId(p) ==
    /\ req[p].pc = "idle"
    /\ Started < MaxRequests
    /\ req' = [req EXCEPT ![p] = Finish(p, "invalidId")]
    /\ UNCHANGED <<tickets, purchases, listVars, adminVars, payVars, lookVars, searchVars>>

\* the checks the controller makes on the ticket it has read
Admission(existingTicket, ticketType, ticketsQuantity) ==
    IF existingTicket.st # "live" THEN "notFound"
    ELSE IF existingTicket.ticketType # ticketType THEN "typeMismatch"
    ELSE IF ticketsQuantity > existingTicket.ticketsAvailable THEN "insufficient"
    ELSE "ok"

\* await Ticket.findById(ticketId), then the checks up to the create call
PurchaseFindById(p) ==
    /\ req[p].pc = "idle"
    /\ Started < MaxRequests
    /\ \E t \in TicketIds, ty \in TicketTypes, q \in Quantities :
         LET existingTicket == findById(t)
             verdict == Admission(existingTicket, ty, q)
             r == [req[p] EXCEPT !.ticketId = t, !.ticketType = ty,
                                 !.ticketsQuantity = q,
                                 !.existingTicket = existingTicket,
                                 !.cached = existingTicket.st = "live"
                                     /\ cache[existingTicket.event] # Miss]
         IN  req' = [req EXCEPT ![p] =
                        IF verdict = "ok"
                        THEN [r EXCEPT !.pc = "creating"]
                        ELSE [r EXCEPT !.pc = "done", !.outcome = verdict,
                                       !.status = StatusOf(verdict),
                                       !.existingTicket = NoTicket]]
    /\ UNCHANGED <<tickets, purchases, listVars, adminVars, payVars, lookVars, searchVars>>

\* PurchaseCreate with the insert left out: the handler goes on to the save
\* without a record of the purchase
PurchaseCreate_NoRecord(p) ==
    /\ req[p].pc = "creating"
    /\ req' = [req EXCEPT ![p].pc = "saving"]
    /\ UNCHANGED <<tickets, purchases, listVars, adminVars, payVars, lookVars, searchVars>>

\* await PurchaseTicketModel.create(...) resolves, then updateTicketsAvailable
\* on the ticket object read before, up to the save call
PurchaseCreate(p) ==
    /\ req[p].pc = "creating"
    /\ purchases' = purchases \cup
         {[id |-> p, user |-> UserOf(p), event |-> req[p].existingTicket.event,
           ticketType |-> req[p].ticketType,
           ticketsQuantity |-> req[p].ticketsQuantity,
           totalPrice |-> req[p].existingTicket.price * req[p].ticketsQuantity]}
    /\ req' = [req EXCEPT ![p].pc = "saving"]
    /\ UNCHANGED <<tickets, listVars, adminVars, payVars, lookVars, searchVars>>

\* PurchaseCreateFail of a handler that decrements before it creates the
\* record and has no release: the failure leaves the decrement in place
PurchaseCreateFail_Reserved(p) ==
    LET t == req[p].ticketId
        updatedTicket == updateTicketsAvailable(req[p].existingTicket,
                                                req[p].ticketsQuantity)
    IN  /\ req[p].pc = "creating"
        /\ tickets[t].st = "live"
        /\ tickets' = [tickets EXCEPT ![t].ticketsAvailable =
                                         updatedTicket.ticketsAvailable]
        /\ req' = [req EXCEPT ![p] =
                     [Finish(p, "createFailed") EXCEPT
                        !.wrote = TRUE,
                        !.removed = tickets[t].ticketsAvailable
                                      - updatedTicket.ticketsAvailable]]
        /\ UNCHANGED <<purchases, listVars, adminVars, payVars, lookVars, searchVars>>

\* await PurchaseTicketModel.create(...) rejects: tryCatch hands the error on
PurchaseCreateFail(p) ==
    /\ req[p].pc = "creating"
    /\ req' = [req EXCEPT ![p] = Finish(p, "createFailed")]
    /\ UNCHANGED <<tickets, purchases, listVars, adminVars, payVars, lookVars, searchVars>>

\* await updatedTicket.save() resolves: the modified path ticketsAvailable is
\* $set on the stored document, then the 201 response
PurchaseSave(p) ==
    LET t == req[p].ticketId
        updatedTicket == updateTicketsAvailable(req[p].existingTicket,
                                                req[p].ticketsQuantity)
        modified == updatedTicket.ticketsAvailable
                      # req[p].existingTicket.ticketsAvailable
    IN  /\ req[p].pc = "saving"
        /\ tickets[t].st = "live"
        /\ tickets' = IF modified
                      THEN [tickets EXCEPT ![t].ticketsAvailable =
                                              updatedTicket.ticketsAvailable]
                      ELSE tickets
        /\ req' = [req EXCEPT ![p] =
                     [Finish(p, "success") EXCEPT
                        !.wrote = modified,
                        !.removed = tickets[t].ticketsAvailable
                                      - tickets'[t].ticketsAvailable]]
        /\ UNCHANGED <<purchases, listVars, adminVars, payVars, lookVars, searchVars>>

\* PurchaseSaveFail of a save that applies its update and then reports the
\* error
PurchaseSaveFail_Applied(p) ==
    LET t == req[p].ticketId
        updatedTicket == updateTicketsAvailable(req[p].existingTicket,
                                                req[p].ticketsQuantity)
    IN  /\ req[p].pc = "saving"
        /\ tickets[t].st = "live"
        /\ tickets' = [tickets EXCEPT ![t].ticketsAvailable =
                                         updatedTicket.ticketsAvailable]
        /\ req' = [req EXCEPT ![p] =
                     [Finish(p, "saveFailed") EXCEPT
                        !.wrote = TRUE,
                        !.removed = tickets[t].ticketsAvailable
                                      - updatedTicket.ticketsAvailable]]
        /\ UNCHANGED <<purchases, listVars, adminVars, payVars, lookVars, searchVars>>

\* await updatedTicket.save() rejects with a persistence error
PurchaseSaveFail(p) ==
    /\ req[p].pc = "saving"
    /\ req' = [req EXCEPT ![p] = Finish(p, "saveFailed")]
    /\ UNCHANGED <<tickets, purchases, listVars, adminVars, payVars, lookVars, searchVars>>

\* await updatedTicket.save() finds no document to update (the ticket was
\* deleted after it was read): DocumentNotFoundError
PurchaseSaveNotFound(p) ==
    /\ req[p].pc = "saving"
    /\ tickets[req[p].ticketId].st # "live"
    /\ req' = [req EXCEPT ![p] = Finish(p, "docNotFound")]
    /\ UNCHANGED <<tickets, purchases, listVars, adminVars, payVars, lookVars, searchVars>>

\* the steps of a purchase while no ticket is deleted
PurchaseSteps(p) ==
    \/ PurchaseValidationError(p)
    \/ PurchaseInvalidId(p)
    \/ PurchaseFindById(p)
    \/ PurchaseCreate(p)
    \/ PurchaseCreateFail(p)
    \/ PurchaseSave(p)
    \/ PurchaseSaveFail(p)

Purchase(p) ==
    \/ PurchaseSteps(p)
    \/ PurchaseSaveNotFound(p)

(***************************************************************************)
(* ticketListByEventController                                             *)
(***************************************************************************)
Succeeded == {p \in Procs : req[p].outcome = "success"}

\* ListGet of a handler that refreshes the entry from the store on a hit
ListGet_Refresh(l) ==
    /\ lst[l].pc = "idle"
    /\ Started < MaxRequests
    /\ \E e \in Events :
         LET cachedData == cache[e]
             fresh == ListingFrom(tickets, e, 1)
             r == [lst[l] EXCEPT !.eventId = e, !.after = Succeeded]
         IN  IF cachedData # Miss
             THEN /\ lst' = [lst EXCEPT ![l] =
                              [r EXCEPT !.pc = "done", !.status = 200,
                                        !.resp = fresh, !.auth = fresh]]
                  /\ cache' = [cache EXCEPT ![e] = stringify(fresh)]
             ELSE /\ lst' = [lst EXCEPT ![l] = [r EXCEPT !.pc = "finding"]]
                  /\ cache' = cache
    /\ UNCHANGED <<purchaseVars, expiry, adminVars, payVars, lookVars, searchVars>>

\* await client.get(key): a hit answers with the parsed entry, a miss goes on
\* to Ticket.find.  The fields after and auth are history: the purchases
\* answered 201 before this read, and the listing the store held at the read.
ListGet(l) ==
    /\ lst[l].pc = "idle"
    /\ Started < MaxRequests
    /\ \E e \in Events :
         LET cachedData == cache[e]
             r == [lst[l] EXCEPT !.eventId = e, !.after = Succeeded]
         IN  lst' = [lst EXCEPT ![l] =
                       IF cachedData # Miss
                       THEN [r EXCEPT !.pc = "done", !.status = 200,
                                      !.resp = parse(cachedData),
                                      !.auth = ListingFrom(tickets, e, 1)]
                       ELSE [r EXCEPT !.pc = "finding"]]
    /\ UNCHANGED <<purchaseVars, cache, expiry, adminVars, payVars, lookVars, searchVars>>

\* the event id is no ObjectId: the key misses, then the 400
ListInvalidId(l) ==
    /\ lst[l].pc = "idle"
    /\ Started < MaxRequests
    /\ lst' = [lst EXCEPT ![l] = [@ EXCEPT !.pc = "done", !.status = 400]]
    /\ UNCHANGED <<purchaseVars, cache, expiry, adminVars, payVars, lookVars, searchVars>>

\* ListFind of a handler that reads one ticket of the event (findOne) instead
\* of all of them
ListFind_FirstOnly(l) ==
    /\ lst[l].pc = "finding"
    /\ LET found == ListingFrom(tickets, lst[l].eventId, 1)
           allTickets == IF found = <<>> THEN <<>> ELSE <<found[1]>>
       IN  lst' = [lst EXCEPT ![l] =
                     IF Len(allTickets) = 0
                     THEN [@ EXCEPT !.pc = "done", !.status = 404]
                     ELSE [@ EXCEPT !.pc = "setting", !.tickets = allTickets,
                                    !.auth = allTickets]]
    /\ UNCHANGED <<purchaseVars, cache, expiry, adminVars, payVars, lookVars, searchVars>>

\* await Ticket.find({ event: eventId }): 404 when empty, else the mapped
\* tickets, up to the client.set call
ListFind(l) ==
    /\ lst[l].pc = "finding"
    /\ LET allTickets == ListingFrom(tickets, lst[l].eventId, 1)
       IN  lst' = [lst EXCEPT ![l] =
                     IF Len(allTickets) = 0
                     THEN [@ EXCEPT !.pc = "done", !.status = 404]
                     ELSE [@ EXCEPT !.pc = "setting", !.tickets = allTickets,
                                    !.auth = allTickets]]
    /\ UNCHANGED <<purchaseVars, cache, expiry, adminVars, payVars, lookVars, searchVars>>

\* ListSet with SET ... NX: an existing entry is kept
ListSet_IfAbsent(l) ==
    /\ lst[l].pc = "setting"
    /\ IF cache[lst[l].eventId] = Miss
       THEN /\ cache' = [cache EXCEPT ![lst[l].eventId] =
                                         stringify(lst[l].tickets)]
            /\ expiry' = [expiry EXCEPT ![lst[l].eventId] = TicketListTTL]
       ELSE UNCHANGED <<cache, expiry>>
    /\ lst' = [lst EXCEPT ![l] = [@ EXCEPT !.pc = "done", !.status = 200,
                                            !.resp = lst[l].tickets,
                                            !.tickets = <<>>]]
    /\ UNCHANGED <<purchaseVars, adminVars, payVars, lookVars, searchVars>>

\* await client.set(key, JSON.stringify(tickets), "EX", 3600), then the 200
ListSet(l) ==
    /\ lst[l].pc = "setting"
    /\ cache' = [cache EXCEPT ![lst[l].eventId] = stringify(lst[l].tickets)]
    /\ expiry' = [expiry EXCEPT ![lst[l].eventId] = TicketListTTL]
    /\ lst' = [lst EXCEPT ![l] = [@ EXCEPT !.pc = "done", !.status = 200,
                                            !.resp = lst[l].tickets,
                                            !.tickets = <<>>]]
    /\ UNCHANGED <<purchaseVars, adminVars, payVars, lookVars, searchVars>>

\* the one-hour expiry of an entry passes
CacheExpire(e) ==
    /\ cache[e] # Miss
    /\ cache' = [cache EXCEPT ![e] = Miss]
    /\ expiry' = [expiry EXCEPT ![e] = 0]
    /\ UNCHANGED <<purchaseVars, lst, adminVars, payVars, lookVars, searchVars>>

Listing(l) ==
    \/ ListGet(l)
    \/ ListInvalidId(l)
    \/ ListFind(l)
    \/ ListSet(l)

(***************************************************************************)
(* The organizer's controllers.  Each writes the tickets collection in one *)
(* database operation (Ticket.create, findByIdAndUpdate, findByIdAndDelete)*)
(* and the reads before it only decide whether that operation is issued;   *)
(* the owner of a ticket never changes, so the handler is one action at    *)
(* the moment of its write.                                                *)
(***************************************************************************)
\* the unique index on ticketType of the tickets collection
TypeTaken(ty, except) ==
    \E t \in TicketIds : t # except /\ tickets[t].st = "live" /\ tickets[t].ticketType = ty

FreeIds == {t \in TicketIds : tickets[t].st = "none"}

Served(status) ==
    /\ adminOps' = adminOps + 1
    /\ adminResp' = status
    /\ UNCHANGED initialAvailable

\* createTicketController
CreateTicket(adminId, eventId, ticketType, price, ticketsAvailable) ==
    /\ adminOps < MaxAdminOps
    /\ Started < MaxRequests
    /\ FreeIds # {}
    /\ LET id == CHOOSE t \in FreeIds : \A u \in FreeIds : t <= u
       IN  IF EventAdmin(eventId) # adminId
           THEN Served(403) /\ UNCHANGED tickets
           ELSE IF TypeTaken(ticketType, 0)
           THEN Served(409) /\ UNCHANGED tickets
           ELSE /\ tickets' = [tickets EXCEPT ![id] =
                                 [st |-> "live", admin |-> adminId,
                                  event |-> eventId, ticketType |-> ticketType,
                                  price |-> price,
                                  ticketsAvailable |-> ticketsAvailable]]
                /\ Served(201)
    /\ UNCHANGED <<purchases, req, listVars, payVars, lookVars, searchVars>>

\* UpdateTicket of a handler that also reprices the PurchaseRecords of the
\* ticket it edits
UpdateTicket_Reprice(adminId, ticketId, ticketType, price, ticketsAvailable) ==
    /\ adminOps < MaxAdminOps
    /\ Started < MaxRequests
    /\ LET existingTicket == findById(ticketId)
       IN  IF existingTicket.st # "live"
           THEN Served(404) /\ UNCHANGED <<tickets, purchases>>
           ELSE IF existingTicket.admin # adminId
           THEN Served(403) /\ UNCHANGED <<tickets, purchases>>
           ELSE IF TypeTaken(ticketType, ticketId)
           THEN Served(409) /\ UNCHANGED <<tickets, purchases>>
           ELSE /\ tickets' = [tickets EXCEPT ![ticketId] =
                                 [@ EXCEPT !.ticketType = ticketType,
                                           !.price = price,
                                           !.ticketsAvailable = ticketsAvailable]]
                /\ purchases' =
                     {IF r.event = existingTicket.event
                         /\ r.ticketType = existingTicket.ticketType
                      THEN [r EXCEPT !.totalPrice = price * r.ticketsQuantity]
                      ELSE r : r \in purchases}
                /\ Served(200)
    /\ UNCHANGED <<req, listVars, payVars, lookVars, searchVars>>

\* updateTicketByIdController
UpdateTicket(adminId, ticketId, ticketType, price, ticketsAvailable) ==
    /\ adminOps < MaxAdminOps
    /\ Started < MaxRequests
    /\ LET existingTicket == findById(ticketId)
       IN  IF existingTicket.st # "live"
           THEN Served(404) /\ UNCHANGED tickets
           ELSE IF existingTicket.admin # adminId
           THEN Served(403) /\ UNCHANGED tickets
           ELSE IF TypeTaken(ticketType, ticketId)
           THEN Served(409) /\ UNCHANGED tickets
           ELSE /\ tickets' = [tickets EXCEPT ![ticketId] =
                                 [@ EXCEPT !.ticketType = ticketType,
                                           !.price = price,
                                           !.ticketsAvailable = ticketsAvailable]]
                /\ Served(200)
    /\ UNCHANGED <<purchases, req, listVars, payVars, lookVars, searchVars>>

\* deleteTicketsByIdController
DeleteTicket(adminId, ticketId) ==
    /\ adminOps < MaxAdminOps
    /\ Started < MaxRequests
    /\ LET existingTicket == findById(ticketId)
       IN  IF existingTicket.st # "live"
           THEN Served(404) /\ UNCHANGED tickets
           ELSE IF existingTicket.admin # adminId
           THEN Served(403) /\ UNCHANGED tickets
           ELSE /\ tickets' = [tickets EXCEPT ![ticketId].st = "deleted"]
                /\ Served(200)
    /\ UNCHANGED <<purchases, req, listVars, payVars, lookVars, searchVars>>

RoleOf(principal) == IF principal \in Admins THEN "ADMIN" ELSE "USER"

\* isAdmin, which runs before the three controllers above: a principal whose
\* role is not ADMIN is answered 401 and the controller is not run
isAdmin(principal) ==
    /\ adminOps < MaxAdminOps
    /\ Started < MaxRequests
    /\ RoleOf(principal) # "ADMIN"
    /\ Served(401)
    /\ UNCHANGED <<purchaseVars, listVars, payVars, lookVars, searchVars>>

Organizer ==
    \/ \E u \in Users : isAdmin(u)
    \/ \E a \in Admins, e \in Events, ty \in TicketTypes, pr \in Prices,
          n \in StockInputs : CreateTicket(a, e, ty, pr, n)
    \/ \E a \in Admins, t \in TicketIds, ty \in TicketTypes, pr \in Prices,
          n \in StockInputs : UpdateTicket(a, t, ty, pr, n)
    \/ \E a \in Admins, t \in TicketIds : DeleteTicket(a, t)

(***************************************************************************)
(* paymentVerification.  The route runs auth first, which sets req.user to *)
(* a stored user or admin document, so req.user._id is always present and  *)
(* the 401 branch of the controller is never taken.                        *)
(***************************************************************************)
\* the status the controller or errorHandler answers with: the duplicate
\* key error of the payments collection has code 11000 and a keyPattern
\* over razorpay_* fields, which matches none of errorHandler's branches,
\* and is not operational
PayStatusOf(outcome) ==
    CASE outcome = "success" -> 200
      [] outcome = "mismatch" -> 400
      [] outcome \in {"duplicate", "createFailed"} -> 500
      [] OTHER -> 0

\* the unique indexes on razorpay_payment_id, razorpay_order_id and
\* razorpay_signature
PaymentTaken(paymentId, order, signature) ==
    \E d \in payments :
        \/ d.razorpay_payment_id = paymentId
        \/ d.razorpay_order_id = order
        \/ d.razorpay_signature = signature

\* PayVerify of a handler that goes on to the create whatever the comparison
\* of the signatures says
PayVerify_NoCheck(v) ==
    /\ pay[v].pc = "idle"
    /\ \E razorpay_payment_id \in PaymentIds, razorpay_order_id \in OrderIds,
          razorpay_signature \in Signatures :
         pay' = [pay EXCEPT ![v] =
                   [@ EXCEPT !.razorpay_payment_id = razorpay_payment_id,
                             !.razorpay_order_id = razorpay_order_id,
                             !.razorpay_signature = razorpay_signature,
                             !.pc = "creating"]]
    /\ UNCHANGED <<purchaseVars, listVars, adminVars, payments, lookVars, searchVars>>

\* the synchronous part: the signature is generated from the module's
\* orderId and the request's payment id and compared with the request's
PayVerify(v) ==
    /\ pay[v].pc = "idle"
    /\ \E razorpay_payment_id \in PaymentIds, razorpay_order_id \in OrderIds,
          razorpay_signature \in Signatures :
         LET body == <<orderId, "|", razorpay_payment_id>>
             generated_signature == createHmac(key_secret, body)
             r == [pay[v] EXCEPT
                     !.razorpay_payment_id = razorpay_payment_id,
                     !.razorpay_order_id = razorpay_order_id,
                     !.razorpay_signature = razorpay_signature]
         IN  pay' = [pay EXCEPT ![v] =
                       IF generated_signature # razorpay_signature
                       THEN [r EXCEPT !.pc = "done", !.outcome = "mismatch",
                                      !.status = PayStatusOf("mismatch")]
                       ELSE [r EXCEPT !.pc = "creating"]]
    /\ UNCHANGED <<purchaseVars, listVars, adminVars, payments, lookVars, searchVars>>

\* PayCreate on a payments collection without the unique indexes
PayCreate_NoIndex(v) ==
    /\ pay[v].pc = "creating"
    /\ payments' = payments \cup
         {[id |-> v,
           razorpay_payment_id |-> pay[v].razorpay_payment_id,
           razorpay_order_id |-> pay[v].razorpay_order_id,
           razorpay_signature |-> pay[v].razorpay_signature]}
    /\ pay' = [pay EXCEPT ![v] = [@ EXCEPT !.pc = "done", !.outcome = "success",
                                            !.status = PayStatusOf("success")]]
    /\ UNCHANGED <<purchaseVars, listVars, adminVars, lookVars, searchVars>>

\* await paymentModel.create(...) resolves: the document is inserted
PayCreate(v) ==
    /\ pay[v].pc = "creating"
    /\ ~PaymentTaken(pay[v].razorpay_payment_id, pay[v].razorpay_order_id,
                     pay[v].razorpay_signature)
    /\ payments' = payments \cup
         {[id |-> v,
           razorpay_payment_id |-> pay[v].razorpay_payment_id,
           razorpay_order_id |-> pay[v].razorpay_order_id,
           razorpay_signature |-> pay[v].razorpay_signature]}
    /\ pay' = [pay EXCEPT ![v] = [@ EXCEPT !.pc = "done", !.outcome = "success",
                                            !.status = PayStatusOf("success")]]
    /\ UNCHANGED <<purchaseVars, listVars, adminVars, lookVars, searchVars>>

\* await paymentModel.create(...) rejects with the duplicate key error of a
\* unique index
PayCreateDuplicate(v) ==
    /\ pay[v].pc = "creating"
    /\ PaymentTaken(pay[v].razorpay_payment_id, pay[v].razorpay_order_id,
                    pay[v].razorpay_signature)
    /\ pay' = [pay EXCEPT ![v] = [@ EXCEPT !.pc = "done", !.outcome = "duplicate",
                                            !.status = PayStatusOf("duplicate")]]
    /\ UNCHANGED <<purchaseVars, listVars, adminVars, payments, lookVars, searchVars>>

\* await paymentModel.create(...) rejects with a persistence error
PayCreateFail(v) ==
    /\ pay[v].pc = "creating"
    /\ pay' = [pay EXCEPT ![v] = [@ EXCEPT !.pc = "done",
                                            !.outcome = "createFailed",
                                            !.status = PayStatusOf("createFailed")]]
    /\ UNCHANGED <<purchaseVars, listVars, adminVars, payments, lookVars, searchVars>>

paymentVerification(v) ==
    \/ PayVerify(v)
    \/ PayCreate(v)
    \/ PayCreateDuplicate(v)
    \/ PayCreateFail(v)

(***************************************************************************)
(* getAllPurchasedTicketsController and purchasedTicketByIdController.     *)
(* Both are declared as async (req, res) and call next(err) in their error *)
(* branches: next is not bound there, the call throws a ReferenceError,    *)
(* tryCatch hands that error to errorHandler, and the answer is the 500 of *)
(* a non-operational error.  The reads of the users:{userId} key are       *)
(* commented out in the source; only the client.set remains.  The array    *)
(* of documents is kept as a set.                                          *)
(***************************************************************************)
LookStatusOf(outcome) ==
    CASE outcome = "success" -> 200
      [] outcome \in {"noneFound", "invalidId"} -> 500
      [] OTHER -> 0

\* the object a purchasedTickets document is mapped to in the responses
mapPurchase(doc) ==
    [id |-> doc.id, ticket |-> doc.ticketType,
     ticketsQuantity |-> doc.ticketsQuantity, price |-> doc.totalPrice]

\* JSON.stringify of the array: a text, never equal to redis' null
stringifyPurchases(objs) ==
    <<{<<o.id, o.ticket, o.ticketsQuantity, o.price>> : o \in objs}>>

\* GetAllFind with a find that leaves out the user filter
GetAllFind_Everyone(k) ==
    /\ look[k].pc = "idle"
    /\ Started < MaxRequests
    /\ \E userId \in Users :
         LET allTickets == purchases
             r == [look[k] EXCEPT !.kind = "all", !.user = userId,
                                  !.after = Succeeded]
         IN  look' = [look EXCEPT ![k] =
                        IF allTickets = {}
                        THEN [r EXCEPT !.pc = "done", !.outcome = "noneFound",
                                       !.status = LookStatusOf("noneFound")]
                        ELSE [r EXCEPT !.pc = "setting",
                                       !.tickets = {mapPurchase(d) :
                                                      d \in allTickets}]]
    /\ UNCHANGED <<purchaseVars, listVars, adminVars, payVars, userCache,
                   searchVars>>

\* await PurchaseTicketModel.find({ user: userId }): nothing found throws at
\* next(err); else the mapped documents, up to the client.set call
GetAllFind(k) ==
    /\ look[k].pc = "idle"
    /\ Started < MaxRequests
    /\ \E userId \in Users :
         LET allTickets == {d \in purchases : d.user = userId}
             r == [look[k] EXCEPT !.kind = "all", !.user = userId,
                                  !.after = Succeeded]
         IN  look' = [look EXCEPT ![k] =
                        IF allTickets = {}
                        THEN [r EXCEPT !.pc = "done", !.outcome = "noneFound",
                                       !.status = LookStatusOf("noneFound")]
                        ELSE [r EXCEPT !.pc = "setting",
                                       !.tickets = {mapPurchase(d) :
                                                      d \in allTickets}]]
    /\ UNCHANGED <<purchaseVars, listVars, adminVars, payVars, userCache,
                   searchVars>>

\* await client.set(key, JSON.stringify(tickets), "EX", 3600), then the 200
GetAllSet(k) ==
    /\ look[k].pc = "setting"
    /\ userCache' = [userCache EXCEPT ![look[k].user] =
                                        stringifyPurchases(look[k].tickets)]
    /\ look' = [look EXCEPT ![k] = [@ EXCEPT !.pc = "done",
                                              !.outcome = "success",
                                              !.status = LookStatusOf("success")]]
    /\ UNCHANGED <<purchaseVars, listVars, adminVars, payVars, searchVars>>

\* purchasedTicketByIdController with a path id that is no ObjectId
PurchasedTicketInvalidId(k) ==
    /\ look[k].pc = "idle"
    /\ Started < MaxRequests
    /\ \E userId \in Users :
         look' = [look EXCEPT ![k] =
                    [@ EXCEPT !.kind = "byId", !.user = userId, !.pc = "done",
                              !.outcome = "invalidId",
                              !.status = LookStatusOf("invalidId")]]
    /\ UNCHANGED <<purchaseVars, listVars, adminVars, payVars, userCache,
                   searchVars>>

\* await PurchaseTicketModel.findById(purchasedTicketId): nothing found
\* throws at next(err); else the 200 with the mapped document
PurchasedTicketById(k) ==
    /\ look[k].pc = "idle"
    /\ Started < MaxRequests
    /\ \E userId \in Users, purchasedTicketId \in Procs :
         LET purchasedTicket == {d \in purchases : d.id = purchasedTicketId}
             r == [look[k] EXCEPT !.kind = "byId", !.user = userId,
                                  !.id = purchasedTicketId,
                                  !.after = Succeeded, !.pc = "done"]
         IN  look' = [look EXCEPT ![k] =
                        IF purchasedTicket = {}
                        THEN [r EXCEPT !.outcome = "noneFound",
                                       !.status = LookStatusOf("noneFound")]
                        ELSE [r EXCEPT !.outcome = "success",
                                       !.status = LookStatusOf("success"),
                                       !.tickets = {mapPurchase(d) :
                                                      d \in purchasedTicket}]]
    /\ UNCHANGED <<purchaseVars, listVars, adminVars, payVars, userCache,
                   searchVars>>

Lookup(k) ==
    \/ GetAllFind(k)
    \/ GetAllSet(k)
    \/ PurchasedTicketInvalidId(k)
    \/ PurchasedTicketById(k)

(***************************************************************************)
(* eventsListController with at least one filter.                          *)
(***************************************************************************)
\* await client.get("events:filter"): a hit answers with the entry as it is
SearchGet(x) ==
    /\ search[x].pc = "idle"
    /\ \E category \in Categories, page \in Pages :
         LET cachedData == filterCache
             r == [search[x] EXCEPT !.category = category, !.page = page]
         IN  search' = [search EXCEPT ![x] =
                          IF cachedData # Miss
                          THEN [r EXCEPT !.pc = "done", !.status = 200,
                                         !.resp = cachedData]
                          ELSE [r EXCEPT !.pc = "finding"]]
    /\ UNCHANGED <<purchaseVars, listVars, adminVars, payVars, lookVars,
                   filterCache>>

\* await Events.find(query)...: the page of the matching events (an array,
\* never null), mapped, up to the client.set call
SearchFind(x) ==
    /\ search[x].pc = "finding"
    /\ search' = [search EXCEPT ![x] =
                    [@ EXCEPT !.pc = "setting",
                              !.events = EventsPage(search[x].category,
                                                    search[x].page)]]
    /\ UNCHANGED <<purchaseVars, listVars, adminVars, payVars, lookVars,
                   filterCache>>

\* await client.set("events:filter", JSON.stringify(events), "EX", 120),
\* then the 200
SearchSet(x) ==
    /\ search[x].pc = "setting"
    /\ filterCache' = stringifyEvents(search[x].events)
    /\ search' = [search EXCEPT ![x] =
                    [@ EXCEPT !.pc = "done", !.status = 200,
                              !.resp = stringifyEvents(search[x].events),
                              !.events = <<>>]]
    /\ UNCHANGED <<purchaseVars, listVars, adminVars, payVars, lookVars>>

\* the two minutes of the entry pass
FilterExpire ==
    /\ filterCache # Miss
    /\ filterCache' = Miss
    /\ UNCHANGED <<purchaseVars, listVars, adminVars, payVars, lookVars,
                   search>>

eventsListController(x) ==
    \/ SearchGet(x)
    \/ SearchFind(x)
    \/ SearchSet(x)

(***************************************************************************)
(* Specifications: purchases alone; purchases and organizer requests (all  *)
(* that writes the tickets and purchases collections); purchases and       *)
(* listings with no organizer request; all the ticket controllers; the     *)
(* listings with the organizer requests; purchases and the purchased-      *)
(* ticket lookups; the filtered event search; the payment verification;    *)
(* updateTicketsAvailable on its own.                                      *)
(***************************************************************************)
NextPurchase == \E p \in Procs : PurchaseSteps(p)

SpecPurchase == Init /\ [][NextPurchase]_vars

NextInventory ==
    \/ \E p \in Procs : Purchase(p)
    \/ Organizer

SpecInventory == Init /\ [][NextInventory]_vars

NextListing ==
    \/ \E p \in Procs : PurchaseSteps(p)
    \/ \E l \in Listers : Listing(l)
    \/ \E e \in Events : CacheExpire(e)

SpecListing == Init /\ [][NextListing]_vars

Next ==
    \/ \E p \in Procs : Purchase(p)
    \/ \E l \in Listers : Listing(l)
    \/ \E e \in Events : CacheExpire(e)
    \/ Organizer

Spec == Init /\ [][Next]_vars

\* listings and organizer requests: the readers and the writers of the
\* ticket catalogue, with no purchase
NextCatalog ==
    \/ \E l \in Listers : Listing(l)
    \/ \E e \in Events : CacheExpire(e)
    \/ Organizer

SpecCatalog == Init /\ [][NextCatalog]_vars

\* purchases and the lookups of purchased tickets
NextLookup ==
    \/ \E p \in Procs : PurchaseSteps(p)
    \/ \E k \in Lookers : Lookup(k)

SpecLookup == Init /\ [][NextLookup]_vars

\* the filtered event searches, which share only the events:filter key
NextSearch ==
    \/ \E x \in Searchers : eventsListController(x)
    \/ FilterExpire

SpecSearch == Init /\ [][NextSearch]_vars

\* the payment controller shares no collection and no cache key with the
\* ticket controllers: its requests are checked on their own
NextPayment == \E v \in Verifiers : paymentVerification(v)

SpecPayment == Init /\ [][NextPayment]_vars

(***************************************************************************)
(* updateTicketsAvailable on its own: the ticket object and the quantity   *)
(* are drawn from all documents and numbers of the bounds, the checks of   *)
(* the controller left aside.  tickets[1] keeps the stored document the    *)
(* object was read from; req[1].existingTicket is the object the function  *)
(* mutates and returns.                                                    *)
(***************************************************************************)
InitUpdate ==
    /\ initialAvailable \in 0..MaxAvail
    /\ \E a \in Admins, e \in Events, ty \in TicketTypes, pr \in Prices :
         tickets = [t \in TicketIds |->
                      IF t = 1
                      THEN [st |-> "live", admin |-> a, event |-> e,
                            ticketType |-> ty, price |-> pr,
                            ticketsAvailable |-> initialAvailable]
                      ELSE NoTicket]
    /\ purchases = {}
    /\ \E quantity \in Quantities :
         req = [p \in Procs |->
                  IF p = 1
                  THEN [IdleReq EXCEPT !.pc = "saving", !.ticketId = 1,
                                       !.ticketType = tickets[1].ticketType,
                                       !.ticketsQuantity = quantity,
                                       !.existingTicket = findById(1)]
                  ELSE IdleReq]
    /\ cache = [e \in Events |-> Miss]
    /\ lst = [l \in Listers |-> IdleList]
    /\ adminOps = 0
    /\ adminResp = 0
    /\ expiry = [e \in Events |-> 0]
    /\ payments = {}
    /\ pay = [v \in Verifiers |-> IdlePay]
    /\ look = [k \in Lookers |-> IdleLook]
    /\ userCache = [u \in Users |-> Miss]
    /\ search = [x \in Searchers |-> IdleSearch]
    /\ filterCache = Miss

\* const updatedTicket = updateTicketsAvailable(existingTicket, ticketsQuantity)
CallUpdateTicketsAvailable(p) ==
    /\ req[p].pc = "saving"
    /\ req' = [req EXCEPT
                 ![p].existingTicket =
                     updateTicketsAvailable(req[p].existingTicket,
                                            req[p].ticketsQuantity),
                 ![p].pc = "updated"]
    /\ UNCHANGED <<tickets, purchases, listVars, adminVars, payVars, lookVars,
                   searchVars>>

NextUpdate == \E p \in Procs : CallUpdateTicketsAvailable(p)

SpecUpdate == InitUpdate /\ [][NextUpdate]_vars

(***************************************************************************)
(* Properties                                                              *)
(***************************************************************************)
RECURSIVE SumQuantity(_)
SumQuantity(S) ==
    IF S = {} THEN 0
    ELSE LET p == CHOOSE x \in S : TRUE
         IN  req[p].ticketsQuantity + SumQuantity(S \ {p})

\* the attempts on ticket t that were answered with 201
SuccessOn(t) == {p \in Procs : req[p].outcome = "success" /\ req[p].ticketId = t}

HasRecord(p) == \E r \in purchases : r.id = p

Quiescent == \A p \in Procs : req[p].pc \in {"idle", "done"}

\* every request made so far asks for a positive quantity
PositiveOnly ==
    \A p \in Procs : req[p].pc # "idle" => req[p].ticketsQuantity > 0

Failures ==
    {"validation", "invalidId", "notFound", "typeMismatch", "insufficient",
     "createFailed", "saveFailed", "docNotFound"}

\* C1: every stored ticket has ticketsAvailable >= 0, whatever creates,
\* updates and purchases have run.
C1_NonNegativeStock ==
    \A t \in TicketIds : tickets[t].st = "live" => tickets[t].ticketsAvailable >= 0

\* C2: with no organizer request, the quantities of the purchases of ticket 1
\* answered with 201 never add up to more than its initial ticketsAvailable.
C2_NoOversell ==
    PositiveOnly => SumQuantity(SuccessOn(1)) <= initialAvailable

\* C3: ticket 1 starts with 5; two purchases of 3 each, neither hit by a
\* persistence error: exactly one is answered 201, the other is rejected as
\* insufficient, and 2 remain.
C3_FiveAndTwoThrees ==
    ( /\ initialAvailable = 5
      /\ \A p \in {1, 2} :
           /\ req[p].pc = "done"
           /\ req[p].ticketId = 1
           /\ req[p].ticketsQuantity = 3
           /\ req[p].outcome \in {"success", "insufficient"} )
    => /\ Cardinality(SuccessOn(1)) = 1
       /\ \E p \in {1, 2} : req[p].outcome = "insufficient"
       /\ tickets[1].ticketsAvailable = 2

\* C4: with no organizer request, once every purchase has finished the
\* ticketsAvailable of ticket 1 is its initial value minus the quantities of
\* the purchases answered with 201 (all requests for positive quantities).
C4_DecrementOncePerPurchase ==
    (Quiescent /\ PositiveOnly) =>
        tickets[1].ticketsAvailable = initialAvailable - SumQuantity(SuccessOn(1))

\* C5: no purchase is answered with 201 when the inventory its save took off
\* the stored ticket is less than the ticketsQuantity of its record (all
\* requests for positive quantities).
C5_NoPartialFulfillment ==
    PositiveOnly =>
        \A p \in Procs :
            req[p].outcome = "success" => req[p].removed >= req[p].ticketsQuantity

\* C6: a purchase that ends with a failure response never changes the
\* inventory: a step of a purchase that changes the tickets collection is the
\* step that answers 201.
C6_FailureLeavesInventory ==
    [][\A p \in Procs :
          (req'[p] # req[p] /\ tickets' # tickets) => req'[p].outcome = "success"]_vars

\* C6 witness: a purchase failed at its save, after the record was created,
\* and the stock of its ticket is still the initial one
C6_Witness ==
    \E p \in Procs :
        /\ req[p].outcome = "saveFailed"
        /\ req[p].ticketId = 1
        /\ req[p].ticketsQuantity > 0
        /\ tickets[1].st = "live"
        /\ tickets[1].ticketsAvailable = initialAvailable

\* C7: a finished purchase has a PurchaseRecord exactly when it was answered
\* with 201; an attempt that returned an error leaves none.
C7_RecordIffSuccess ==
    \A p \in Procs :
        (req[p].pc = "done" /\ req[p].ticketsQuantity > 0)
            => (HasRecord(p) <=> req[p].outcome = "success")

C10_ListingShowsPurchase ==
    \A l \in Listers : \A p \in lst[l].after :
        (lst[l].pc = "done" /\ lst[l].status = 200 /\ req[p].wrote
           /\ req[p].cached /\ PositiveOnly)
            => \A i \in 1..Len(lst[l].resp) :
                   lst[l].resp[i].id = req[p].ticketId
                       => \E j \in 1..Len(lst[l].auth) :
                              /\ lst[l].auth[j].id = lst[l].resp[i].id
                              /\ lst[l].auth[j].ticketsAvailable
                                   = lst[l].resp[i].ticketsAvailable

\* the organizer request served by this step was answered with success
OrganizerSucceeds == adminOps' = adminOps + 1 /\ adminResp' \in {200, 201}

\* C11: when an organizer's create, update or delete is answered with
\* success, the cache holds no entry under tickets:{eventId} for an event
\* whose listing the request changed, so that the next read loads the store.
C11_MutationInvalidates ==
    [][OrganizerSucceeds =>
          \A e \in Events :
              ListingFrom(tickets', e, 1) # ListingFrom(tickets, e, 1)
                  => cache'[e] = Miss]_vars

\* C12: whenever an entry is written under tickets:{eventId}, its content is
\* the listing the store holds for that event at the moment of the write,
\* also when a purchase was answered between the Ticket.find and the
\* client.set of the listing (all requests for positive quantities).
C12_EntryFreshWhenWritten ==
    [][\A e \in Events :
          (PositiveOnly /\ cache'[e] # cache[e] /\ cache'[e] # Miss)
              => cache'[e] = stringify(ListingFrom(tickets', e, 1))]_vars

\* the listing request l takes a step from stage "from"
ListStep(l, from) == lst[l].pc = from /\ lst'[l] # lst[l]

\* C13: on a miss for tickets:{eventId} with at least one ticket of the event
\* in the store, the listing takes its payload from the store, stores exactly
\* that payload under the key with an expiry of one hour, and answers 200
\* with it.
C13_MissLoadsStoresReturns ==
    [][\A l \in Listers :
          LET e == lst[l].eventId
              stored == ListingFrom(tickets, e, 1)
          IN  /\ (ListStep(l, "finding") /\ stored # <<>>)
                    => /\ lst'[l].pc = "setting"
                       /\ lst'[l].tickets = stored
                       /\ cache' = cache
              /\ ListStep(l, "setting")
                    => /\ lst[l].tickets = lst[l].auth
                       /\ parse(cache'[e]) = lst[l].tickets
                       /\ expiry'[e] = 3600
                       /\ lst'[l].pc = "done"
                       /\ lst'[l].status = 200
                       /\ lst'[l].resp = lst[l].tickets]_vars

\* C13 witness: the only listing so far missed, loaded an event with two
\* tickets and was answered with both; the entry holds them for an hour
C13_Witness ==
    \E l \in Listers :
        /\ \A k \in Listers \ {l} : lst[k].pc = "idle"
        /\ lst[l].pc = "done"
        /\ lst[l].status = 200
        /\ Len(lst[l].resp) = 2
        /\ cache[lst[l].eventId] = stringify(lst[l].resp)
        /\ expiry[lst[l].eventId] = 3600

\* C14: on a hit for tickets:{eventId} the listing answers 200 with the
\* parsed entry in the same step (it never reaches Ticket.find), and the
\* tickets and purchases collections, the cache and its expiries are left as
\* they were.
C14_HitTouchesNothing ==
    [][\A l \in Listers :
          (ListStep(l, "idle") /\ lst'[l].eventId \in Events
             /\ cache[lst'[l].eventId] # Miss)
              => /\ lst'[l].pc = "done"
                 /\ lst'[l].status = 200
                 /\ lst'[l].resp = parse(cache[lst'[l].eventId])
                 /\ UNCHANGED <<tickets, purchases, cache, expiry>>]_vars

\* C14 witness: a listing was answered from the entry while the store held a
\* different listing for the event
C14_Witness ==
    \E l \in Listers :
        /\ lst[l].pc = "done"
        /\ lst[l].status = 200
        /\ lst[l].resp # lst[l].auth
        /\ lst[l].resp = parse(cache[lst[l].eventId])

\* C15: a client.set on a key replaces whatever the key held (each key has
\* one value, cache being a function of the key), and a hit on the key is
\* answered with the value the key holds, that is the one set last.
C15_SetOverwrites ==
    [][\A l \in Listers :
          /\ ListStep(l, "setting")
                => /\ cache'[lst[l].eventId] = stringify(lst[l].tickets)
                   /\ \A e \in Events \ {lst[l].eventId} : cache'[e] = cache[e]
          /\ (ListStep(l, "idle") /\ lst'[l].pc = "done" /\ lst'[l].status = 200)
                => stringify(lst'[l].resp) = cache[lst'[l].eventId]]_vars

\* C15 witness: two listings of one event each set the key, with different
\* payloads, and the key holds one of the two
C15_Witness ==
    \E l, k \in Listers :
        /\ lst[l].pc = "done" /\ lst[l].status = 200
        /\ lst[k].pc = "done" /\ lst[k].status = 200
        /\ lst[l].eventId = lst[k].eventId
        /\ lst[l].resp # lst[k].resp
        /\ cache[lst[l].eventId] = stringify(lst[l].resp)

\* C16: a purchase whose ticketsQuantity is zero or negative is rejected as
\* invalid input (400): it leaves no PurchaseRecord and it does not change
\* the ticketsAvailable of its ticket (requests not hit by a persistence
\* error).
C16_NonPositiveRejected ==
    \A p \in Procs :
        (req[p].pc = "done" /\ req[p].ticketId \in TicketIds
           /\ req[p].ticketsQuantity <= 0
           /\ req[p].outcome \notin {"createFailed", "saveFailed"})
            => /\ req[p].status = 400
               /\ ~HasRecord(p)
               /\ ~req[p].wrote

\* C17: a PurchaseRecord is created with totalPrice = ticketsQuantity x the
\* price of the ticket document the purchase read from the store, and no
\* later step (an organizer's price edit among them) changes or removes a
\* record.
C17_TotalPriceFixed ==
    [][/\ \A r \in purchases : r \in purchases'
       /\ \A p \in Procs :
            (req[p].pc = "idle" /\ req'[p].pc = "creating")
                => req'[p].existingTicket = tickets[req'[p].ticketId]
       /\ \A r \in purchases' \ purchases :
            /\ req[r.id].pc = "creating"
            /\ r.ticketsQuantity = req[r.id].ticketsQuantity
            /\ r.totalPrice
                 = r.ticketsQuantity * req[r.id].existingTicket.price]_vars

\* C17 witness: a purchase of ticket 1 at price 100 was answered 201 and its
\* record still carries quantity x 100 while the ticket now costs 150
C17_Witness ==
    \E r \in purchases :
        /\ req[r.id].outcome = "success"
        /\ req[r.id].ticketId = 1
        /\ r.ticketsQuantity > 0
        /\ r.totalPrice = r.ticketsQuantity * 100
        /\ tickets[1].st = "live"
        /\ tickets[1].price = 150

\* C18: whatever paymentVerification calls have run, in whatever order, the
\* payments collection holds at most one PaymentRecord per
\* razorpay_signature, per razorpay_payment_id and per razorpay_order_id.
C18_OneRecordPerSignature ==
    \A d, f \in payments :
        ( \/ d.razorpay_signature = f.razorpay_signature
          \/ d.razorpay_payment_id = f.razorpay_payment_id
          \/ d.razorpay_order_id = f.razorpay_order_id ) => d = f

\* C18 witness: a call repeated the signature of a recorded payment, passed
\* the signature check and ended without a second record
C18_Witness ==
    \E v \in Verifiers : \E d \in payments :
        /\ d.id # v
        /\ pay[v].pc = "done"
        /\ pay[v].outcome = "duplicate"
        /\ pay[v].razorpay_signature = d.razorpay_signature
        /\ Cardinality(payments) = 1

\* C19: a paymentVerification call that repeats a recorded signature is
\* answered 409, a status different from the mismatch's 400 and from the
\* generic failure's 500.
C19_DuplicateIsConflict ==
    \A v \in Verifiers :
        ( /\ pay[v].outcome = "duplicate"
          /\ \E d \in payments :
                d.razorpay_signature = pay[v].razorpay_signature )
            => pay[v].status = 409

\* the request of call v passed the signature check
PassedCheck(v) ==
    pay[v].pc = "creating" \/ (pay[v].pc = "done" /\ pay[v].outcome # "mismatch")

\* C20: a request passes the signature check exactly when its signature is
\* the digest, under the secret, of its own order id, "|" and its own payment
\* id.
C20_AcceptsIffOwnHmac ==
    \A v \in Verifiers :
        pay[v].pc # "idle"
            => (PassedCheck(v)
                  <=> pay[v].razorpay_signature
                        = createHmac(key_secret,
                                     <<pay[v].razorpay_order_id, "|",
                                       pay[v].razorpay_payment_id>>))

\* C21: a PaymentRecord is created only by a call that passed the
\* controller's signature comparison (its signature is the one the
\* controller generates for its payment id), a call answered with the
\* mismatch leaves no record, and no step changes or removes a record.
C21_RecordOnlyAfterCheck ==
    [][/\ \A d \in payments : d \in payments'
       /\ \A d \in payments' \ payments :
            /\ pay[d.id].pc = "creating"
            /\ d.razorpay_signature = pay[d.id].razorpay_signature
            /\ d.razorpay_signature
                 = createHmac(key_secret,
                              <<orderId, "|", d.razorpay_payment_id>>)
       /\ \A v \in Verifiers :
            pay'[v].outcome = "mismatch"
                => ~\E d \in payments' : d.id = v]_vars

\* C21 witness: one call was rejected for its signature and left no record,
\* another passed the comparison and was recorded
C21_Witness ==
    \E v, w \in Verifiers :
        /\ pay[v].outcome = "mismatch"
        /\ pay[v].status = 400
        /\ pay[w].outcome = "success"
        /\ payments = {[id |-> w,
                        razorpay_payment_id |-> pay[w].razorpay_payment_id,
                        razorpay_order_id |-> pay[w].razorpay_order_id,
                        razorpay_signature |-> pay[w].razorpay_signature]}

\* this step serves an update or a delete of the live ticket t asked by a
\* principal who is not the admin that owns t
NonOwnerRequest(t) ==
    /\ tickets[t].st = "live"
    /\ \/ \E u \in Users : isAdmin(u)
       \/ \E a \in Admins \ {tickets[t].admin} :
             \/ DeleteTicket(a, t)
             \/ \E ty \in TicketTypes, pr \in Prices, n \in StockInputs :
                   UpdateTicket(a, t, ty, pr, n)

\* C22: an update or delete of a ticket asked by a principal who is not the
\* admin that owns it is answered 403 and leaves the tickets as they were.
C22_NonOwnerForbidden ==
    [][\A t \in TicketIds :
          NonOwnerRequest(t) => (adminResp' = 403 /\ tickets' = tickets)]_vars

\* C23: no event has two tickets of one ticketType, and a create by the
\* event's admin is answered with the 409 conflict only when the event
\* already has a ticket of the requested type: a ticket of the same type
\* under another event does not stand in its way.
C23_TypeUniquePerEvent ==
    [][/\ \A t, u \in TicketIds :
            ( /\ t # u
              /\ tickets'[t].st = "live" /\ tickets'[u].st = "live"
              /\ tickets'[t].event = tickets'[u].event )
                => tickets'[t].ticketType # tickets'[u].ticketType
       /\ \A e \in Events, ty \in TicketTypes, pr \in Prices,
             n \in StockInputs :
            (CreateTicket(EventAdmin(e), e, ty, pr, n) /\ adminResp' = 409)
                => \E t \in TicketIds :
                      /\ tickets[t].st = "live"
                      /\ tickets[t].event = e
                      /\ tickets[t].ticketType = ty]_vars

\* C24: a purchase for a well-formed ticket id that matches no ticket is
\* answered 404, leaves no PurchaseRecord and changes no inventory.
C24_UnknownTicketNotFound ==
    \A p \in Procs :
        req[p].outcome = "notFound"
            => /\ req[p].status = 404
               /\ ~HasRecord(p)
               /\ ~req[p].wrote

\* C25: a purchase lookup that finds nothing (no purchase of the caller, or
\* no record with the id) is answered 404, not the generic 500.
C25_LookupNotFound ==
    \A k \in Lookers :
        look[k].outcome = "noneFound" => look[k].status = 404

\* C26: the purchased-ticket listing of a user answers only with records of
\* that user, and a listing that read the store after a purchase of the user
\* was answered 201 contains the record of that purchase (the users:{userId}
\* entry never stands in for the store).
C26_OwnPurchasesListed ==
    \A k \in Lookers :
        (look[k].pc \in {"setting", "done"} /\ look[k].kind = "all")
            => /\ \A o \in look[k].tickets :
                     \E d \in purchases :
                         /\ d.user = look[k].user
                         /\ mapPurchase(d) = o
               /\ \A p \in look[k].after :
                     UserOf(p) = look[k].user
                         => /\ look[k].outcome # "noneFound"
                            /\ \E o \in look[k].tickets : o.id = p

\* C26 witness: both users have a record; a listing of one user, made after
\* that user's purchase was answered 201, was answered 200 with that record
\* alone
C26_Witness ==
    \E k \in Lookers : \E p \in Procs :
        /\ look[k].pc = "done"
        /\ look[k].kind = "all"
        /\ look[k].status = 200
        /\ p \in look[k].after
        /\ UserOf(p) = look[k].user
        /\ {o.id : o \in look[k].tickets} = {p}
        /\ \E d \in purchases : d.user # look[k].user

\* C27: updateTicketsAvailable(ticket, quantity) leaves ticketsAvailable at
\* the old value minus quantity when that is not negative and at 0 otherwise,
\* changes no other field of the ticket, and returns the ticket it was given
C27_UpdateClampsAtZero ==
    \A p \in Procs :
        req[p].pc = "updated"
            => LET old == tickets[req[p].ticketId]
                   new == req[p].existingTicket
                   remaining == old.ticketsAvailable - req[p].ticketsQuantity
               IN  /\ new.ticketsAvailable
                        = IF remaining >= 0 THEN remaining ELSE 0
                   /\ DOMAIN new = DOMAIN old
                   /\ \A f \in DOMAIN old \ {"ticketsAvailable"} :
                         new[f] = old[f]

\* the function was called with more than the ticket had and left it at 0
C27_Witness ==
    /\ req[1].pc = "updated"
    /\ req[1].ticketsQuantity > tickets[1].ticketsAvailable
    /\ tickets[1].ticketsAvailable > 0
    /\ req[1].existingTicket.ticketsAvailable = 0

\* C28: a purchase that read the ticket before an organizer's successful
\* update of ticketsAvailable does not overwrite that update: its save leaves
\* the organizer's value minus the purchased quantity
C28_UpdateNotOverwritten ==
    [][\A p \in Procs :
          LET t == req[p].ticketId
              stored == tickets[t].ticketsAvailable
              quantity == req[p].ticketsQuantity
          IN  (/\ PurchaseSave(p)
               /\ adminResp = 200
               /\ \A other \in Procs \ {p} : ~req[other].wrote
               /\ stored # req[p].existingTicket.ticketsAvailable
               /\ quantity >= 0
               /\ stored >= quantity)
                  => tickets'[t].ticketsAvailable = stored - quantity]_vars

\* C29: a purchase whose ticketType differs from the ticket's is answered 400,
\* creates no record and changes no stock
MismatchRejected(p) ==
    (PurchaseFindById(p) /\ req'[p].outcome = "typeMismatch")
        => /\ req'[p].status = 400
           /\ purchases' = purchases
           /\ tickets' = tickets

\* C29: when a purchase decrements a ticket, its record carries the
\* ticketType and the event of that ticket
RecordMatchesDecremented(p) ==
    (PurchaseSave(p) /\ req'[p].wrote)
        => \E d \in purchases :
              /\ d.id = p
              /\ d.ticketType = tickets[req[p].ticketId].ticketType
              /\ d.event = tickets[req[p].ticketId].event

\* C29: a mismatching purchase is rejected without effect, so every record
\* has the ticketType and event of the ticket whose stock was decremented
C29_RecordMatchesTicket ==
    [][\A p \in Procs : MismatchRejected(p) /\ RecordMatchesDecremented(p)]_vars

\* C30: a filtered search is answered with the events that match its own
\* filters and page, also when the answer comes from events:filter
C30_SearchMatchesFilters ==
    \A x \in Searchers :
        (search[x].pc = "done" /\ search[x].status = 200)
            => search[x].resp
                 = stringifyEvents(EventsPage(search[x].category,
                                              search[x].page))

====
